---- MODULE Spec2Model ----
(***************************************************************************)
(* PointNetwork (bmtk/simulator/pointnet/pointnetwork.py): the builder     *)
(* that turns node/edge populations into NEST objects and connections.     *)
(*                                                                         *)
(* Floats are modelled as integers (spike times, float weights); a value   *)
(* that may be None carries an is_none flag.  A NEST handle is the integer *)
(* the kernel hands out; nest.Create numbers objects consecutively, so the *)
(* kernel's object table is a sequence indexed by handle.                  *)
(***************************************************************************)
EXTENDS Integers, Sequences, FiniteSets, TLC

\* ------------------------------------------------------------------ bounds
MaxCalls == 3      \* calls of the network's methods in one run
MaxFailAt == 2     \* the latest Connect of a call that the kernel may refuse
MaxQueryLen == 2   \* node-ids in one resolution asked of a pool

\* ------------------------------------------------------- helper operators
Range(f) == {f[x] : x \in DOMAIN f}

RECURSIVE SeqSum(_)
SeqSum(q) == IF q = <<>> THEN 0 ELSE Head(q) + SeqSum(Tail(q))

\* number of positions of q holding x
Count(q, x) == Cardinality({i \in DOMAIN q : q[i] = x})

\* ------------------------------------------------- the network that is loaded
\* self.node_populations, in iteration order.  Each population exposes its
\* classification and get_nodes(): batches with node_ids and model_type.
node_populations ==
    << [name |-> "I", internal_nodes_only |-> TRUE, virtual_nodes_only |-> FALSE,
        mixed_nodes |-> FALSE,
        nodes |-> << [node_ids |-> <<2, 0>>, model_type |-> "point_neuron"],
                     [node_ids |-> <<1>>,    model_type |-> "point_neuron"] >>],
       [name |-> "V", internal_nodes_only |-> FALSE, virtual_nodes_only |-> TRUE,
        mixed_nodes |-> FALSE,
        nodes |-> << [node_ids |-> <<1, 0>>, model_type |-> "virtual"] >>],
       [name |-> "M", internal_nodes_only |-> FALSE, virtual_nodes_only |-> FALSE,
        mixed_nodes |-> TRUE,
        nodes |-> << [node_ids |-> <<0, 2>>, model_type |-> "virtual"],
                     [node_ids |-> <<1>>,    model_type |-> "point_neuron"] >>] >>

PopNames == {node_populations[i].name : i \in DOMAIN node_populations}

PopByName(name) ==
    node_populations[CHOOSE i \in DOMAIN node_populations : node_populations[i].name = name]

\* node.n_nodes
n_nodes(node) == Len(node.node_ids)

\* node-ids of a population, virtual ones or the others
NodeIdsOf(name, virtual) ==
    UNION { Range(PopByName(name).nodes[b].node_ids) :
            b \in {c \in DOMAIN PopByName(name).nodes :
                     (PopByName(name).nodes[c].model_type = "virtual") = virtual} }

\* ---------------------------------------------------------------- weights
IntWeight(v)   == [type |-> "int",   val |-> v, arr |-> <<>>]
FloatWeight(v) == [type |-> "float", val |-> v, arr |-> <<>>]
ArrayWeight(a) == [type |-> "array", val |-> 0, arr |-> a]

\* isinstance(w, int)
IsIntFloat(w) == w.type \in {"int", "float"}
IsInt(w) == w.type = "int"

\* np.full(shape=n, fill_value=v)
np_full(n, v) == ArrayWeight([i \in 1..n |-> v])

\* ----------------------------------------------------------- edge collections
\* self._edge_populations: each with source_nodes, target_nodes, the
\* virtual_connections flag and get_edges(): records with node-id arrays and
\* the mutable nest_params bundle.
ep_II == [name |-> "II", source_nodes |-> "I", target_nodes |-> "I",
          virtual_connections |-> FALSE,
          edges |-> << [source_node_ids |-> <<0, 1>>, target_node_ids |-> <<1, 2>>,
                        nest_params |-> [weight |-> IntWeight(3), delay |-> 2]],
                       [source_node_ids |-> <<2>>, target_node_ids |-> <<0>>,
                        nest_params |-> [weight |-> ArrayWeight(<<5>>)]] >>]

ep_MI == [name |-> "MI", source_nodes |-> "M", target_nodes |-> "I",
          virtual_connections |-> FALSE,
          edges |-> << [source_node_ids |-> <<1>>, target_node_ids |-> <<0>>,
                        nest_params |-> [weight |-> FloatWeight(7), delay |-> 1]],
                       [source_node_ids |-> <<0>>, target_node_ids |-> <<1>>,
                        nest_params |-> [weight |-> IntWeight(4), delay |-> 1]] >>]

ep_VI == [name |-> "VI", source_nodes |-> "V", target_nodes |-> "I",
          virtual_connections |-> TRUE,
          edges |-> << [source_node_ids |-> <<0, 1>>, target_node_ids |-> <<0, 0>>,
                        nest_params |-> [weight |-> IntWeight(2), delay |-> 1]],
                       [source_node_ids |-> <<1>>, target_node_ids |-> <<2>>,
                        nest_params |-> [weight |-> FloatWeight(9)]] >>]

\* the networks a run may have loaded
EdgeConfigs == { <<ep_VI>>, <<ep_II, ep_VI>>, <<ep_II, ep_MI, ep_VI>> }

AllEdgePops == {ep_II, ep_MI, ep_VI}

\* ------------------------------------------------------------------ GidPool
\* .gids.GidPool: per population, the node-ids and the parallel NEST handles.
\* pools holds the populations that have an entry; ops is the history of the
\* calls made on the instance.
GidPool == [pools |-> {}, node_ids |-> [n \in PopNames |-> <<>>],
            nest_ids |-> [n \in PopNames |-> <<>>], ops |-> <<>>]

\* an entry that exists is kept as it is
create_pool(pool, name) ==
    [pool EXCEPT !.pools = @ \cup {name},
                 !.ops = Append(@, [op |-> "create_pool", name |-> name])]

add_nestids(pool, name, node_ids, nest_ids) ==
    [pool EXCEPT !.pools = @ \cup {name},
                 !.node_ids[name] = @ \o node_ids,
                 !.nest_ids[name] = @ \o nest_ids,
                 !.ops = Append(@, [op |-> "add_nestids", name |-> name])]

\* whether get_nestids raises a lookup error
get_nestids_fails(pool, name, node_ids) ==
    \/ name \notin pool.pools
    \/ \E i \in DOMAIN node_ids : node_ids[i] \notin Range(pool.node_ids[name])

\* the handle of each node-id, in the order asked
get_nestids(pool, name, node_ids) ==
    [i \in DOMAIN node_ids |->
        pool.nest_ids[name][CHOOSE k \in DOMAIN pool.node_ids[name] :
            /\ pool.node_ids[name][k] = node_ids[i]
            /\ \A j \in DOMAIN pool.node_ids[name] :
                   pool.node_ids[name][j] = node_ids[i] => k <= j]]

\* --------------------------------------------------------------- NEST kernel
\* nest.Create(model, n, params): n new objects, numbered consecutively.
\* pop and node_id record for whom the object was made.
nest_Create(s, model, pop, node_ids) ==
    [s EXCEPT !.objs = @ \o [i \in DOMAIN node_ids |->
                               [model |-> model, pop |-> pop, node_id |-> node_ids[i],
                                spike_times |-> <<>>, n_set |-> 0]]]

\* the handles the Create that led from s to its result returned
Created(s, node_ids) == [i \in DOMAIN node_ids |-> Len(s.objs) + i]

\* nest.SetStatus(handles, {'spike_times': st})
nest_SetStatus(s, handles, st) ==
    [s EXCEPT !.objs = [h \in DOMAIN s.objs |->
                          IF h \in Range(handles)
                          THEN [s.objs[h] EXCEPT !.spike_times = st, !.n_set = @ + 1]
                          ELSE s.objs[h]]]

\* nest.GetKernelStatus(), as the kernel may answer it
KernelStatuses == { [resolution |-> 1, time |-> 0], [time |-> 0] }

\* ------------------------------------------------------------------------ io
\* io.log_error(msg)
log_error(s, msg) == [s EXCEPT !.log = Append(@, [inv |-> s.inv, level |-> "error", msg |-> msg])]

\* io.log_exception(msg): logs, then raises
log_exception(s, msg) ==
    [s EXCEPT !.log = Append(@, [inv |-> s.inv, level |-> "exception", msg |-> msg]),
              !.err = "Exception"]

\* --------------------------------------------------------------- spike trains
NoTimes == [is_none |-> TRUE, times |-> <<>>]
Times(q) == [is_none |-> FALSE, times |-> q]

\* np.any(st <= 0.0)
AnyNegative(st) == \E i \in DOMAIN st : st[i] < 0
AnyNonPositive(st) == \E i \in DOMAIN st : st[i] <= 0

\* st.sort(): ascending, by insertion
RECURSIVE Insert(_, _)
Insert(x, q) ==
    IF q = <<>> THEN <<x>>
    ELSE IF x <= Head(q) THEN <<x>> \o q
    ELSE <<Head(q)>> \o Insert(x, Tail(q))

RECURSIVE Sorted(_)
Sorted(q) == IF q = <<>> THEN <<>> ELSE Insert(Head(q), Sorted(Tail(q)))

Unsorted(q) == q
np_sort(q) == Sorted(q)

\* what one call of set_spikes did: kept for the properties
SpikeCall(s, node_id, handles, got, outcome) ==
    [s EXCEPT !.spikes = Append(@, [inv |-> s.inv, node_id |-> node_id, handles |-> handles,
                                    got |-> got, outcome |-> outcome])]

\* nest_obj is a handle; the status is set on the list [nest_obj]
set_spikes_nest2(s, node_id, nest_obj, spike_trains) ==
    LET st == spike_trains[node_id] IN
    IF st.is_none \/ Len(st.times) = 0
    THEN SpikeCall(s, node_id, <<nest_obj>>, st, "returned")
    ELSE IF AnyNonPositive(st.times)
         THEN SpikeCall(log_exception(s, [text |-> "negative/zero time", st |-> st.times]),
                        node_id, <<nest_obj>>, st, "raised")
         ELSE SpikeCall(nest_SetStatus(s, <<nest_obj>>, np_sort(st.times)),
                        node_id, <<nest_obj>>, st, "returned")

\* nest_obj is a one-node collection; the status is set on it
set_spikes_nest3(s, node_id, nest_obj, spike_trains) ==
    LET st == spike_trains[node_id] IN
    IF st.is_none \/ Len(st.times) = 0
    THEN SpikeCall(s, node_id, nest_obj, st, "returned")
    ELSE IF AnyNonPositive(st.times)
         THEN SpikeCall(log_exception(s, [text |-> "negative/zero time", st |-> st.times]),
                        node_id, nest_obj, st, "raised")
         ELSE SpikeCall(nest_SetStatus(s, nest_obj, np_sort(st.times)),
                        node_id, nest_obj, st, "returned")

\* the routine the module selects at import
set_spikes(s, node_id, nest_obj, spike_trains) ==
    IF s.nest_version >= 3
    THEN set_spikes_nest3(s, node_id, nest_obj, spike_trains)
    ELSE set_spikes_nest2(s, node_id, nest_obj, spike_trains)


\* ------------------------------------------------------------ _nest_connect
NoSynSpec == [is_none |-> TRUE]
IsNone(syn_spec) == "is_none" \in DOMAIN syn_spec

\* d.get(key, 'NaN'), formatted into the message
GetOrNaN(d, key) == IF key \in DOMAIN d THEN ToString(d[key]) ELSE "NaN"

\* one call of the gateway: kept for the properties
GatewayCall(s0, s, ctx, nest_srcs, nest_trgs, syn_spec, engine, raised) ==
    [s EXCEPT !.gateway = Append(@, [inv |-> s.inv, caller |-> ctx.caller, ep |-> ctx.ep,
                                     e |-> ctx.e, srcs |-> nest_srcs, trgs |-> nest_trgs,
                                     syn_spec |-> syn_spec, engine |-> engine.error,
                                     kernel |-> engine.kernel, raised |-> raised,
                                     n_logged |-> Len(s.log) - Len(s0.log),
                                     gid_map |-> s.gid_map, virtual_gids |-> s.virtual_gids,
                                     virtual_ids_map |-> s.virtual_ids_map]),
              !.err = raised]

\* engine: how nest.Connect ends ("ok", "BadDelay", "NESTError") and what
\* nest.GetKernelStatus() answers
_nest_connect(s, ctx, nest_srcs, nest_trgs, conn_spec, syn_spec, engine) ==
    IF engine.error = "ok"
    THEN GatewayCall(s, s, ctx, nest_srcs, nest_trgs, syn_spec, engine, "none")
    ELSE IF engine.error = "BadDelay"
    THEN LET res_kernel == GetOrNaN(engine.kernel, "resolution") IN
         IF IsNone(syn_spec)
         THEN \* None has no attribute get
              GatewayCall(s, s, ctx, nest_srcs, nest_trgs, syn_spec, engine, "AttributeError")
         ELSE LET delay_edges == GetOrNaN(syn_spec, "delay")
                  msg == [text |-> "delay not compatible with resolution",
                          delay |-> delay_edges, dt |-> res_kernel]
                  s1 == log_error(s, [text |-> "BadDelay"])
                  s2 == log_error(s1, msg)
              IN GatewayCall(s, s2, ctx, nest_srcs, nest_trgs, syn_spec, engine, "BadDelay")
    ELSE GatewayCall(s, log_error(s, [text |-> engine.error]),
                     ctx, nest_srcs, nest_trgs, syn_spec, engine, engine.error)

\* how the kernel answers the next Connect of this call: fail.at is the
\* attempt of the call that fails (0: none)
OkEngine == [error |-> "ok", kernel |-> [resolution |-> 1, time |-> 0]]
Attempts(s) == Cardinality({k \in DOMAIN s.gateway : s.gateway[k].inv = s.inv})
EngineFor(s, fail) ==
    IF Attempts(s) + 1 = fail.at THEN [error |-> fail.error, kernel |-> fail.kernel]
    ELSE OkEngine

\* ------------------------------------------------------------- build_nodes
\* node.build(): the batch's objects are created in the kernel; node.nest_ids
Reverse(q) == [i \in DOMAIN q |-> q[Len(q) + 1 - i]]

register_reversed(s, pop_name, node) ==
    LET s1 == nest_Create(s, node.model_type, pop_name, node.node_ids) IN
    [s1 EXCEPT !.gid_map = add_nestids(@, pop_name, node.node_ids,
                                       Reverse(Created(s, node.node_ids)))]

\* node.build(); gid_map.add_nestids(name, node.node_ids, node.nest_ids)
build_and_register(s, pop_name, node) ==
    LET s1 == nest_Create(s, node.model_type, pop_name, node.node_ids) IN
    [s1 EXCEPT !.gid_map = add_nestids(@, pop_name, node.node_ids,
                                       Created(s, node.node_ids))]

RECURSIVE build_internal(_, _, _)
build_internal(s, node_pop, b) ==
    IF b > Len(node_pop.nodes) THEN s
    ELSE build_internal(build_and_register(s, node_pop.name, node_pop.nodes[b]),
                        node_pop, b + 1)

RECURSIVE build_mixed(_, _, _)
build_mixed(s, node_pop, b) ==
    IF b > Len(node_pop.nodes) THEN s
    ELSE IF node_pop.nodes[b].model_type # "virtual"
         THEN build_mixed(build_and_register(s, node_pop.name, node_pop.nodes[b]),
                          node_pop, b + 1)
         ELSE build_mixed(s, node_pop, b + 1)

RECURSIVE build_nodes_from(_, _)
build_nodes_from(s, p) ==
    IF p > Len(node_populations) THEN s
    ELSE LET node_pop == node_populations[p]
             s1 == [s EXCEPT !.gid_map = create_pool(@, node_pop.name)]
             s2 == IF node_pop.internal_nodes_only THEN build_internal(s1, node_pop, 1)
                   ELSE IF node_pop.mixed_nodes THEN build_mixed(s1, node_pop, 1)
                   ELSE s1
         IN build_nodes_from(s2, p + 1)

build_nodes(s) == build_nodes_from(s, 1)

\* --------------------------------------------------- build_recurrent_edges
\* the edge records of the collections idxs (indices into edges), in
\* iteration order, each as <<collection, record>>
RECURSIVE EdgeRefs(_, _)
EdgeRefs(edges, idxs) ==
    IF idxs = <<>> THEN <<>>
    ELSE [j \in 1..Len(edges[Head(idxs)].edges) |-> <<Head(idxs), j>>]
         \o EdgeRefs(edges, Tail(idxs))

Indices(q) == [i \in 1..Len(q) |-> i]

\* [ep for ep in self._edge_populations if not ep.virtual_connections]
all_edge_pops(edges) == Indices(edges)
recurrent_edge_pops(edges) ==
    SelectSeq(Indices(edges), LAMBDA i : ~edges[i].virtual_connections)

\* the int weight of edge record <<i, j>> becomes np.full(len(nest_srcs), weight)
broadcast_weight(s, i, j, nest_srcs) ==
    LET w == s.edges[i].edges[j].nest_params.weight IN
    IF IsInt(w)
    THEN [s EXCEPT !.edges[i].edges[j].nest_params.weight = np_full(Len(nest_srcs), w.val)]
    ELSE s

\* the error is dropped and the method goes on
Swallow(s, error) == s

Raise(s, error) == [s EXCEPT !.err = error]

\* one edge record of build_recurrent_edges
recurrent_edge(s, i, j, fail) ==
    LET edge_pop == s.edges[i]
        edge == edge_pop.edges[j]
    IN IF get_nestids_fails(s.gid_map, edge_pop.source_nodes, edge.source_node_ids)
       THEN Raise(s, "LookupError")
       ELSE IF get_nestids_fails(s.gid_map, edge_pop.target_nodes, edge.target_node_ids)
       THEN Raise(s, "LookupError")
       ELSE LET nest_srcs == get_nestids(s.gid_map, edge_pop.source_nodes, edge.source_node_ids)
                nest_trgs == get_nestids(s.gid_map, edge_pop.target_nodes, edge.target_node_ids)
                s1 == broadcast_weight(s, i, j, nest_srcs)
            IN _nest_connect(s1, [caller |-> "build_recurrent_edges", ep |-> edge_pop.name, e |-> j],
                             nest_srcs, nest_trgs, "one_to_one",
                             s1.edges[i].edges[j].nest_params, EngineFor(s1, fail))

RECURSIVE recurrent_edges_from(_, _, _, _)
recurrent_edges_from(s, refs, k, fail) ==
    IF k > Len(refs) \/ s.err # "none" THEN s
    ELSE recurrent_edges_from(recurrent_edge(s, refs[k][1], refs[k][2], fail), refs, k + 1, fail)

build_recurrent_edges(s, fail) ==
    IF recurrent_edge_pops(s.edges) = <<>> THEN s
    ELSE recurrent_edges_from(s, EdgeRefs(s.edges, recurrent_edge_pops(s.edges)), 1, fail)

\* ---------------------------------------------------------------- find_edges
find_edges(edges, source_nodes, target_nodes) ==
    LET by_source == IF source_nodes # "None"
                     THEN SelectSeq(Indices(edges), LAMBDA i : edges[i].source_nodes = source_nodes)
                     ELSE Indices(edges)
    IN IF target_nodes # "None"
       THEN SelectSeq(by_source, LAMBDA i : edges[i].target_nodes = target_nodes)
       ELSE by_source

\* ---------------------------------------------------------- add_spike_trains
\* set_spikes(node_id=..., nest_id=..., spike_trains=...): the routine has no
\* parameter nest_id, so the call raises before the routine runs
set_spikes_nest_id(s, node_id, nest_id, spike_trains) == Raise(s, "TypeError")

\* for node_id, nest_obj, nest_id in zip(node.node_ids, nest_objs, nest_ids)
RECURSIVE virtual_zip(_, _, _, _, _, _)
virtual_zip(s, node_ids, nest_objs, nest_ids, k, spike_trains) ==
    IF k > Len(node_ids) \/ s.err # "none" THEN s
    ELSE LET s1 == [s EXCEPT !.virt_node_map = (node_ids[k] :> nest_ids[k]) @@ @]
         IN virtual_zip(set_spikes(s1, node_ids[k], nest_objs[k], spike_trains),
                        node_ids, nest_objs, nest_ids, k + 1, spike_trains)

\* one batch of a virtual-only population
virtual_batch(s, pop_name, node, spike_trains) ==
    LET s1 == nest_Create(s, "spike_generator", pop_name, node.node_ids)
        created == Created(s, node.node_ids)
        nest_objs == IF s.nest_version >= 3 THEN [i \in DOMAIN created |-> <<created[i]>>]
                     ELSE created
        nest_ids == created
        s2 == [s1 EXCEPT !.virtual_gids = add_nestids(@, pop_name, node.node_ids, nest_ids)]
    IN virtual_zip(s2, node.node_ids, nest_objs, nest_ids, 1, spike_trains)

RECURSIVE virtual_batches(_, _, _, _)
virtual_batches(s, node_pop, b, spike_trains) ==
    IF b > Len(node_pop.nodes) \/ s.err # "none" THEN s
    ELSE virtual_batches(virtual_batch(s, node_pop.name, node_pop.nodes[b], spike_trains),
                         node_pop, b + 1, spike_trains)

\* for node_id, nest_id in zip(node.node_ids, nest_ids)
RECURSIVE mixed_zip(_, _, _, _, _)
mixed_zip(s, node_ids, nest_ids, k, spike_trains) ==
    IF k > Len(node_ids) \/ s.err # "none" THEN s
    ELSE LET s1 == [s EXCEPT !.virt_node_map = (node_ids[k] :> nest_ids[k]) @@ @]
         IN mixed_zip(set_spikes_nest_id(s1, node_ids[k], nest_ids[k], spike_trains),
                      node_ids, nest_ids, k + 1, spike_trains)

\* one batch of a mixed population
mixed_batch(s, pop_name, node, spike_trains) ==
    IF node.model_type # "virtual" THEN s
    ELSE LET s1 == nest_Create(s, "spike_generator", pop_name, node.node_ids)
             nest_ids == Created(s, node.node_ids)
         IN mixed_zip(s1, node.node_ids, nest_ids, 1, spike_trains)

RECURSIVE mixed_batches(_, _, _, _)
mixed_batches(s, node_pop, b, spike_trains) ==
    IF b > Len(node_pop.nodes) \/ s.err # "none" THEN s
    ELSE mixed_batches(mixed_batch(s, node_pop.name, node_pop.nodes[b], spike_trains),
                       node_pop, b + 1, spike_trains)

\* if node_pop.name in self._virtual_ids_map: continue
never_built(s, name) == FALSE
already_built(s, name) == name \in DOMAIN s.virtual_ids_map

\* one population of the first loop of add_spike_trains
spike_population(s, node_pop, spike_trains) ==
    IF already_built(s, node_pop.name) THEN s
    ELSE LET s1 == [s EXCEPT !.virt_node_map = <<>>]
             s2 == IF node_pop.virtual_nodes_only
                   THEN virtual_batches(s1, node_pop, 1, spike_trains)
                   ELSE IF node_pop.mixed_nodes
                   THEN mixed_batches(s1, node_pop, 1, spike_trains)
                   ELSE s1
         IN IF s2.err # "none" THEN s2
            ELSE [s2 EXCEPT !.virtual_ids_map = (node_pop.name :> s2.virt_node_map) @@ @]

RECURSIVE spike_populations(_, _, _, _)
spike_populations(s, src_nodes, p, spike_trains) ==
    IF p > Len(src_nodes) \/ s.err # "none" THEN s
    ELSE spike_populations(spike_population(s, src_nodes[p], spike_trains),
                           src_nodes, p + 1, spike_trains)

\* one edge record of the second loop of add_spike_trains
virtual_edge(s, i, j, fail) ==
    LET edge_pop == s.edges[i]
        edge == edge_pop.edges[j]
    IN IF get_nestids_fails(s.gid_map, edge_pop.target_nodes, edge.target_node_ids)
       THEN Raise(s, "LookupError")
       ELSE IF get_nestids_fails(s.virtual_gids, edge_pop.source_nodes, edge.source_node_ids)
       THEN Raise(s, "LookupError")
       ELSE LET nest_trgs == get_nestids(s.gid_map, edge_pop.target_nodes, edge.target_node_ids)
                nest_srcs == get_nestids(s.virtual_gids, edge_pop.source_nodes, edge.source_node_ids)
                s1 == broadcast_weight(s, i, j, nest_srcs)
            IN _nest_connect(s1, [caller |-> "add_spike_trains", ep |-> edge_pop.name, e |-> j],
                             nest_srcs, nest_trgs, "one_to_one",
                             s1.edges[i].edges[j].nest_params, EngineFor(s1, fail))

RECURSIVE virtual_edges_from(_, _, _, _)
virtual_edges_from(s, refs, k, fail) ==
    IF k > Len(refs) \/ s.err # "none" THEN s
    ELSE virtual_edges_from(virtual_edge(s, refs[k][1], refs[k][2], fail), refs, k + 1, fail)

\* the edge records of the second loop: per source population, its collections
RECURSIVE SourceRefs(_, _)
SourceRefs(edges, src_nodes) ==
    IF src_nodes = <<>> THEN <<>>
    ELSE EdgeRefs(edges, find_edges(edges, Head(src_nodes).name, "None"))
         \o SourceRefs(edges, Tail(src_nodes))

\* a failed connection step takes the populations it built out of the
\* already-built set again
add_spike_trains_rollback(s, spike_trains, node_set, fail) ==
    LET src_nodes == SelectSeq(node_populations, LAMBDA node_pop : node_pop.name \in node_set)
        s1 == spike_populations(s, src_nodes, 1, spike_trains)
        r == virtual_edges_from(s1, SourceRefs(s1.edges, src_nodes), 1, fail)
    IN IF r.err # "none" THEN [r EXCEPT !.virtual_ids_map = s.virtual_ids_map] ELSE r

add_spike_trains(s, spike_trains, node_set, fail) ==
    LET src_nodes == SelectSeq(node_populations, LAMBDA node_pop : node_pop.name \in node_set)
        s1 == spike_populations(s, src_nodes, 1, spike_trains)
    IN virtual_edges_from(s1, SourceRefs(s1.edges, src_nodes), 1, fail)

\* --------------------------------------------------------------- __get_params
\* what one lookup did: kept for the properties
Lookup(s, params_file, parsed, result) ==
    [s EXCEPT !.lookups = Append(@, [inv |-> s.inv, file |-> params_file,
                                     parsed |-> parsed, result |-> result])]

never_cached(s, params_file) == FALSE
in_params_cache(s, params_file) == params_file \in DOMAIN s.params_cache

\* a failed load leaves an empty dict in the cache
get_params_fallback(s, node_params, load) ==
    IF node_params.with_dynamics_params
    THEN Lookup(s, "inline", FALSE, node_params.dynamics_params)
    ELSE LET params_file == node_params.params_file IN
         IF in_params_cache(s, params_file)
         THEN Lookup(s, params_file, FALSE, s.params_cache[params_file])
         ELSE IF load # "ok"
         THEN Raise(Lookup([s EXCEPT !.params_cache = (params_file :> 0) @@ @],
                           params_file, FALSE, 0), load)
         ELSE LET params_dict == s.heap + 1 IN
              Lookup([s EXCEPT !.heap = params_dict,
                               !.params_cache = (params_file :> params_dict) @@ @],
                     params_file, TRUE, params_dict)

\* load: how json.load(open(params_path)) ends; a parse yields a new dict
get_params(s, node_params, load) ==
    IF node_params.with_dynamics_params
    THEN Lookup(s, "inline", FALSE, node_params.dynamics_params)
    ELSE LET params_file == node_params.params_file IN
         IF in_params_cache(s, params_file)
         THEN Lookup(s, params_file, FALSE, s.params_cache[params_file])
         ELSE IF load # "ok"
         THEN Raise(Lookup(s, params_file, FALSE, 0), load)
         ELSE LET params_dict == s.heap + 1 IN
              Lookup([s EXCEPT !.heap = params_dict,
                               !.params_cache = (params_file :> params_dict) @@ @],
                     params_file, TRUE, params_dict)

\* ------------------------------------------------------- weight functions
\* a weight function is known by its __name__ and by what it returns
call(fnc, weight) == fnc.gain * weight

\* functools.partial(fnc): a new callable that forwards to fnc
partial(fnc) == [func |-> fnc, args |-> <<>>]

call_partial(p, weight) == call(p.func, weight)

\* what one get_weight_function() did: kept for the properties
Fetch(s, name, found, result) ==
    [s EXCEPT !.fetched = Append(@, [inv |-> s.inv, name |-> name,
                                     found |-> found, result |-> result])]

\* name is "None" when the argument is omitted; the name `function' of line
\* 131 is bound nowhere in the module, so evaluating it raises NameError
first_write_wins(s, fnc, name) ==
    IF name = "None" THEN Raise(s, "NameError")
    ELSE IF name \in DOMAIN s.weight_functions THEN s
    ELSE [s EXCEPT !.weight_functions = (name :> partial(fnc)) @@ @]

add_weight_function(s, fnc, name) ==
    IF name = "None" THEN Raise(s, "NameError")
    ELSE LET fnc_name == name IN
         [s EXCEPT !.weight_functions = (fnc_name :> partial(fnc)) @@ @]

set_default_weight_function(s, fnc) == add_weight_function(s, fnc, "default_weight_fnc")

get_weight_function(s, name) ==
    IF name \in DOMAIN s.weight_functions
    THEN Fetch(s, name, TRUE, s.weight_functions[name])
    ELSE Raise(Fetch(s, name, FALSE, partial([name |-> "None", gain |-> 0])), "KeyError")

\* ------------------------------------------------------------------- state
VARIABLES
    nest_version,       \* nest_version[0], fixed at import
    _edge_populations,  \* the edge collections, with their mutable nest_params
    _gid_map,           \* GidPool of the built (real) nodes
    _virtual_gids,      \* GidPool of the spike generators
    _virtual_ids_map,   \* population name -> {node_id: nest_id}, the populations already built
    _params_cache,      \* params_file -> dict
    objs,               \* the kernel's objects, by handle
    heap,               \* the dicts json.load has made so far
    log,                \* what io has logged
    gateway,            \* history: the calls of _nest_connect
    spikes,             \* history: the calls of set_spikes
    lookups,            \* history: the calls of __get_params
    __weight_functions, \* name -> functools.partial(fnc)
    fetched,            \* history: the calls of get_weight_function
    calls               \* history: the methods called, with how each ended

vars == <<nest_version, _edge_populations, _gid_map, _virtual_gids, _virtual_ids_map,
          _params_cache, objs, heap, log, gateway, spikes, lookups, __weight_functions,
          fetched, calls>>

\* PointNetwork.__init__
Init ==
    /\ nest_version \in {2, 3}
    /\ _edge_populations \in EdgeConfigs
    /\ _gid_map = GidPool
    /\ _virtual_gids = GidPool
    /\ _virtual_ids_map = <<>>
    /\ _params_cache = <<>>
    /\ objs = <<>>
    /\ heap = 0
    /\ log = <<>>
    /\ gateway = <<>>
    /\ spikes = <<>>
    /\ lookups = <<>>
    /\ __weight_functions = <<>>
    /\ fetched = <<>>
    /\ calls = <<>>

\* the state a method starts from: the fields, no error raised, its locals empty
Enter ==
    [nest_version |-> nest_version, edges |-> _edge_populations, gid_map |-> _gid_map,
     virtual_gids |-> _virtual_gids, virtual_ids_map |-> _virtual_ids_map,
     params_cache |-> _params_cache, objs |-> objs, heap |-> heap, log |-> log,
     gateway |-> gateway, spikes |-> spikes, lookups |-> lookups,
     weight_functions |-> __weight_functions, fetched |-> fetched,
     inv |-> Len(calls) + 1, err |-> "none", virt_node_map |-> <<>>]

\* the state a method leaves, normally or by raising r.err
Leave(r, op, arg) ==
    /\ nest_version' = nest_version
    /\ _edge_populations' = r.edges
    /\ _gid_map' = r.gid_map
    /\ _virtual_gids' = r.virtual_gids
    /\ _virtual_ids_map' = r.virtual_ids_map
    /\ _params_cache' = r.params_cache
    /\ objs' = r.objs
    /\ heap' = r.heap
    /\ log' = r.log
    /\ gateway' = r.gateway
    /\ spikes' = r.spikes
    /\ lookups' = r.lookups
    /\ __weight_functions' = r.weight_functions
    /\ fetched' = r.fetched
    /\ calls' = Append(calls, [op |-> op, arg |-> arg, err |-> r.err])

\* ------------------------------------------------------------------ inputs
\* spike_trains: what get_times returns, by node_id
SpikeTrains ==
    { [n \in 0..1 |-> IF n = 0 THEN Times(<<5, 1, 3>>) ELSE NoTimes],
      [n \in 0..1 |-> IF n = 0 THEN Times(<<-1, 2>>) ELSE Times(<<>>)],
      [n \in 0..1 |-> IF n = 0 THEN Times(<<3>>) ELSE Times(<<2, 0>>)] }

\* node_set.population_names()
NodeSets == { {"V"}, {"M"}, {"V", "M"} }

\* how the kernel answers the Connect calls of one method call: all succeed,
\* or attempt at fails
Fails ==
    { [at |-> 0, error |-> "ok", kernel |-> OkEngine.kernel] }
    \cup { [at |-> k, error |-> e, kernel |-> OkEngine.kernel] :
           k \in 1..MaxFailAt, e \in {"NESTError", "BadDelay"} }

\* the failure asked for happened
Happened(r, fail) == fail.at = 0 \/ Attempts(r) >= fail.at

\* node_params of a node type
NodeParams ==
    { [with_dynamics_params |-> TRUE, dynamics_params |-> -1, params_file |-> "None"] }
    \cup { [with_dynamics_params |-> FALSE, dynamics_params |-> 0, params_file |-> f] :
           f \in {"a.json", "b.json"} }

Loads == {"ok", "JSONDecodeError"}

SynSpecs == { NoSynSpec, [weight |-> FloatWeight(1), delay |-> 1], [weight |-> FloatWeight(1)] }

Engines ==
    { OkEngine, [error |-> "NESTError", kernel |-> OkEngine.kernel] }
    \cup { [error |-> "BadDelay", kernel |-> ks] : ks \in KernelStatuses }

\* ----------------------------------------------------------------- actions
BuildNodes ==
    /\ Len(calls) < MaxCalls
    /\ Leave(build_nodes(Enter), "build_nodes", {})

BuildRecurrentEdges ==
    /\ Len(calls) < MaxCalls
    /\ \E fail \in Fails :
         LET r == build_recurrent_edges(Enter, fail) IN
         /\ Happened(r, fail)
         /\ Leave(r, "build_recurrent_edges", {})

AddSpikeTrains ==
    /\ Len(calls) < MaxCalls
    /\ \E spike_trains \in SpikeTrains, node_set \in NodeSets, fail \in Fails :
         LET r == add_spike_trains(Enter, spike_trains, node_set, fail) IN
         /\ Happened(r, fail)
         /\ Leave(r, "add_spike_trains", node_set)

GetParams ==
    /\ Len(calls) < MaxCalls
    /\ \E node_params \in NodeParams, load \in Loads :
         Leave(get_params(Enter, node_params, load), "__get_params",
               [file |-> node_params.params_file, load |-> load, cache |-> _params_cache])

\* a call of _nest_connect from outside the two build methods
NestConnect ==
    /\ Len(calls) < MaxCalls
    /\ \E syn_spec \in SynSpecs, engine \in Engines :
         Leave(_nest_connect(Enter, [caller |-> "direct", ep |-> "None", e |-> 0],
                             <<1>>, <<2>>, "one_to_one", syn_spec, engine),
               "_nest_connect", {})

\* fnc: the functions a caller registers
Fncs == { [name |-> "f", gain |-> 1], [name |-> "g", gain |-> 2] }

\* the name argument of add_weight_function, "None" when omitted
RegisterNames == {"w1", "None"}

LookupNames == {"w1", "default_weight_fnc", "f"}

AddWeightFunction ==
    /\ Len(calls) < MaxCalls
    /\ \E fnc \in Fncs, name \in RegisterNames :
         Leave(add_weight_function(Enter, fnc, name), "add_weight_function",
               [fnc |-> fnc, name |-> name])

SetDefaultWeightFunction ==
    /\ Len(calls) < MaxCalls
    /\ \E fnc \in Fncs :
         Leave(set_default_weight_function(Enter, fnc), "set_default_weight_function",
               [fnc |-> fnc])

GetWeightFunction ==
    /\ Len(calls) < MaxCalls
    /\ \E name \in LookupNames :
         Leave(get_weight_function(Enter, name), "get_weight_function", name)

\* The four groups of methods share no field: __get_params touches only
\* _params_cache, a direct _nest_connect only the kernel and the log, the
\* weight-function methods only __weight_functions.  Each group is explored on
\* its own.
Next ==
    \/ BuildNodes
    \/ BuildRecurrentEdges
    \/ AddSpikeTrains

Spec == Init /\ [][Next]_vars

NextParams == GetParams

SpecParams == Init /\ [][NextParams]_vars

NextConnect == NestConnect

SpecConnect == Init /\ [][NextConnect]_vars

NextWeights ==
    \/ AddWeightFunction
    \/ SetDefaultWeightFunction
    \/ GetWeightFunction

SpecWeights == Init /\ [][NextWeights]_vars

\* ============================================================== properties
\* the calls of a method so far
CallsOf(op) == {k \in DOMAIN calls : calls[k].op = op}

MixedPops == {node_populations[i].name : i \in {j \in DOMAIN node_populations :
                                                 node_populations[j].mixed_nodes}}
VirtualOnlyPops == {node_populations[i].name : i \in {j \in DOMAIN node_populations :
                                                 node_populations[j].virtual_nodes_only}}
InternalPops == {node_populations[i].name : i \in {j \in DOMAIN node_populations :
                                                 node_populations[j].internal_nodes_only}}

\* the node-ids a pool holds for a population
Registered(pool, name) == Range(pool.node_ids[name])

\* the spike generators the kernel holds for a node
GeneratorsOf(name, node_id) ==
    {h \in DOMAIN objs : /\ objs[h].model = "spike_generator"
                         /\ objs[h].pop = name
                         /\ objs[h].node_id = node_id}

\* build_nodes() was followed by add_spike_trains() naming population name
BuiltThenSpiked(name) ==
    \E i \in CallsOf("build_nodes"), j \in CallsOf("add_spike_trains") :
        i < j /\ name \in calls[j].arg

\* C1: for every mixed population, after build_nodes() followed by
\* add_spike_trains() naming it, the real pool holds exactly its non-virtual
\* node-ids, the virtual pool exactly its virtual node-ids, and no node-id is
\* in both pools.
C1_MixedPoolsPartition ==
    \A name \in MixedPops :
        BuiltThenSpiked(name) =>
            /\ Registered(_gid_map, name) = NodeIdsOf(name, FALSE)
            /\ Registered(_virtual_gids, name) = NodeIdsOf(name, TRUE)
            /\ Registered(_gid_map, name) \cap Registered(_virtual_gids, name) = {}

\* C2: while every add_spike_trains() call so far completed without error,
\* each virtual node of a virtual-only population has at most one spike
\* generator and as many registrations in the virtual pool as generators, and
\* exactly one of each once its population was named in a call (then the
\* population is in the already-built set).
C2_BuiltOnce ==
    (\A k \in CallsOf("add_spike_trains") : calls[k].err = "none") =>
        \A name \in VirtualOnlyPops : \A node_id \in NodeIdsOf(name, TRUE) :
            LET n_gens == Cardinality(GeneratorsOf(name, node_id))
                n_regs == Count(_virtual_gids.node_ids[name], node_id)
                named == \E k \in CallsOf("add_spike_trains") : name \in calls[k].arg
            IN /\ n_gens = n_regs
               /\ n_gens = IF named THEN 1 ELSE 0
               /\ named <=> name \in DOMAIN _virtual_ids_map

\* two calls that completed, both naming V
C2_Witness ==
    /\ \A k \in CallsOf("add_spike_trains") : calls[k].err = "none"
    /\ \E i, j \in CallsOf("add_spike_trains") :
           i < j /\ "V" \in calls[i].arg /\ "V" \in calls[j].arg

\* the gateway calls add_spike_trains() made for edge record e of collection ep
VirtualSends(ep, e) ==
    {k \in DOMAIN gateway : /\ gateway[k].caller = "add_spike_trains"
                            /\ gateway[k].ep = ep
                            /\ gateway[k].e = e}

\* C3: across add_spike_trains() calls with overlapping node sets, each edge
\* record whose source is a virtual population is sent to the gateway at most
\* once.
C3_EdgeSentOnce ==
    \A i \in DOMAIN _edge_populations :
        _edge_populations[i].source_nodes \in VirtualOnlyPops =>
            \A j \in DOMAIN _edge_populations[i].edges :
                Cardinality(VirtualSends(_edge_populations[i].name, j)) <= 1

\* get_times returned a non-empty sequence holding a time <= 0
BadTimes(got) == /\ ~got.is_none
                 /\ got.times # <<>>
                 /\ \E i \in DOMAIN got.times : got.times[i] <= 0

\* C4: when get_times returns a non-empty sequence with a time <= 0, the
\* diagnostic is logged, add_spike_trains() raises, and the status of the
\* node's generator is never set, under both engine versions.
C4_NonPositiveFailsFast ==
    \A k \in DOMAIN spikes :
        BadTimes(spikes[k].got) =>
            /\ spikes[k].outcome = "raised"
            /\ calls[spikes[k].inv].err = "Exception"
            /\ \E l \in DOMAIN log : /\ log[l].inv = spikes[k].inv
                                     /\ log[l].level = "exception"
                                     /\ log[l].msg.st = spikes[k].got.times
            /\ \A h \in Range(spikes[k].handles) :
                   objs[h].n_set = 0 /\ objs[h].spike_times = <<>>

\* a zero time, under the NEST 3 routine
C4_Witness ==
    /\ nest_version = 3
    /\ \E k \in DOMAIN spikes : spikes[k].got = Times(<<2, 0>>)

\* b is a ascending and holds the elements of a, each as often
IsSortedPermutation(b, a) ==
    /\ Len(b) = Len(a)
    /\ \A i \in 1..(Len(b) - 1) : b[i] <= b[i + 1]
    /\ \A x \in Range(a) \cup Range(b) : Count(a, x) = Count(b, x)

\* C5: for all-positive non-empty times the generator's schedule is the
\* ascending permutation of what get_times returned, set exactly once; for an
\* empty or absent sequence the status is not set at all.
C5_SortedSchedule ==
    \A k \in DOMAIN spikes :
        LET got == spikes[k].got
            h == spikes[k].handles[1]
        IN /\ (got.is_none \/ got.times = <<>>) =>
                  /\ spikes[k].outcome = "returned"
                  /\ objs[h].n_set = 0
           /\ (~got.is_none /\ got.times # <<>> /\ ~BadTimes(got)) =>
                  /\ spikes[k].outcome = "returned"
                  /\ objs[h].n_set = 1
                  /\ IsSortedPermutation(objs[h].spike_times, got.times)

\* an unsorted train was scheduled, and an absent one was met
C5_Witness ==
    /\ \E k \in DOMAIN spikes :
           /\ spikes[k].got = Times(<<5, 1, 3>>)
           /\ objs[spikes[k].handles[1]].spike_times = <<1, 3, 5>>
    /\ \E k \in DOMAIN spikes : spikes[k].got.is_none

\* the handle the kernel returned when the node was built
BuiltHandle(name, node_id) ==
    CHOOSE h \in DOMAIN objs : /\ objs[h].model # "spike_generator"
                               /\ objs[h].pop = name
                               /\ objs[h].node_id = node_id

\* the sequences of node-ids of a population asked of a pool
Queries(ids) == UNION {[1..n -> ids] : n \in 1..MaxQueryLen}

\* C6: after build_nodes(), for every internal-only population the real pool
\* resolves any sequence of its node-ids to the handles the kernel returned
\* for them, in the order asked, and its N node-ids have N distinct handles.
C6_ResolvesInOrder ==
    Cardinality(CallsOf("build_nodes")) = 1 =>
        \A name \in InternalPops :
            LET ids == NodeIdsOf(name, FALSE) IN
            /\ \A q \in Queries(ids) :
                   /\ ~get_nestids_fails(_gid_map, name, q)
                   /\ get_nestids(_gid_map, name, q)
                          = [i \in DOMAIN q |-> BuiltHandle(name, q[i])]
            /\ Registered(_gid_map, name) = ids
            /\ Cardinality({BuiltHandle(name, n) : n \in ids}) = Cardinality(ids)
            /\ Cardinality(ids) = SeqSum([b \in DOMAIN PopByName(name).nodes |->
                                             n_nodes(PopByName(name).nodes[b])])

C6_Witness ==
    /\ Cardinality(CallsOf("build_nodes")) = 1
    /\ get_nestids(_gid_map, "I", <<0, 2>>) = <<2, 1>>

\* the gateway calls of call k for edge record e of collection ep
SendsOf(k, ep, e) ==
    {g \in DOMAIN gateway : /\ gateway[g].inv = k
                            /\ gateway[g].ep = ep
                            /\ gateway[g].e = e}

NoRecurrent == \A i \in DOMAIN _edge_populations : _edge_populations[i].virtual_connections

\* C7: a build_recurrent_edges() call that completes has made exactly one
\* gateway call per edge record of every collection not marked virtual; no
\* call of it sends an edge record of a virtual collection; with no recurrent
\* collection it completes without error and without a gateway call.
C7_OnePerRecurrentEdge ==
    \A k \in CallsOf("build_recurrent_edges") :
        /\ \A i \in DOMAIN _edge_populations : \A j \in DOMAIN _edge_populations[i].edges :
               LET n == Cardinality(SendsOf(k, _edge_populations[i].name, j)) IN
               /\ _edge_populations[i].virtual_connections => n = 0
               /\ (calls[k].err = "none" /\ ~_edge_populations[i].virtual_connections) => n = 1
        /\ NoRecurrent =>
               /\ calls[k].err = "none"
               /\ \A g \in DOMAIN gateway : gateway[g].inv # k

\* a call that completed and sent edge records
C7_Witness ==
    \E k \in CallsOf("build_recurrent_edges") :
        /\ calls[k].err = "none"
        /\ \E g \in DOMAIN gateway : gateway[g].inv = k

\* the weight an edge record was loaded with
LoadedWeight(ep, e) ==
    (CHOOSE c \in AllEdgePops : c.name = ep).edges[e].nest_params.weight

\* the weight the claim expects after the record was processed with n sources
ExpectedWeight(ep, e, n) ==
    IF LoadedWeight(ep, e).type = "int"
    THEN [type |-> "array", val |-> 0, arr |-> [i \in 1..n |-> LoadedWeight(ep, e).val]]
    ELSE LoadedWeight(ep, e)

\* C8: the weight passed to the gateway, and stored in the edge record from
\* then on, is an array of one element per resolved source, each the loaded
\* value, iff the loaded weight is an int; an array or float weight is passed
\* and kept unchanged; processing the record again gives the same weight.
C8_BroadcastIntOnly ==
    /\ \A g \in DOMAIN gateway :
           gateway[g].syn_spec.weight
               = ExpectedWeight(gateway[g].ep, gateway[g].e, Len(gateway[g].srcs))
    /\ \A i \in DOMAIN _edge_populations : \A j \in DOMAIN _edge_populations[i].edges :
           LET ep == _edge_populations[i].name
               stored == _edge_populations[i].edges[j].nest_params.weight
               sent == {g \in DOMAIN gateway : gateway[g].ep = ep /\ gateway[g].e = j}
           IN IF sent = {} THEN stored = LoadedWeight(ep, j)
              ELSE \A g \in sent : stored = gateway[g].syn_spec.weight

\* an int weight and a float weight, each processed twice
C8_Witness ==
    \E g1, g2, g3, g4 \in DOMAIN gateway :
        /\ g1 < g2 /\ gateway[g1].ep = gateway[g2].ep /\ gateway[g1].e = gateway[g2].e
        /\ LoadedWeight(gateway[g1].ep, gateway[g1].e).type = "int"
        /\ g3 < g4 /\ gateway[g3].ep = gateway[g4].ep /\ gateway[g3].e = gateway[g4].e
        /\ LoadedWeight(gateway[g3].ep, gateway[g3].e).type = "float"

\* the lookups of a parameter file that returned
Returned(file) == {k \in DOMAIN lookups : lookups[k].file = file /\ lookups[k].result # 0}

ParamFiles == {np.params_file : np \in {x \in NodeParams : ~x.with_dynamics_params}}

\* C9: each parameter file is parsed at most once; the first lookup of it that
\* returns is the one that parsed it and stored the dict in the cache, and
\* every later lookup returns that same dict without parsing.
C9_ParsedOnce ==
    \A file \in ParamFiles :
        /\ Cardinality({k \in DOMAIN lookups : lookups[k].file = file /\ lookups[k].parsed}) <= 1
        /\ \A k \in Returned(file) :
               /\ lookups[k].parsed <=> \A j \in Returned(file) : k <= j
               /\ file \in DOMAIN _params_cache
               /\ lookups[k].result = _params_cache[file]
        /\ file \in DOMAIN _params_cache => Returned(file) # {}

\* a file looked up twice with success, after another file
C9_Witness ==
    \E i, j, k \in DOMAIN lookups :
        /\ i < j /\ j < k
        /\ lookups[i].file = "a.json" /\ lookups[i].result # 0
        /\ lookups[j].file = "b.json" /\ lookups[j].result # 0
        /\ lookups[k].file = "b.json" /\ lookups[k].result # 0

\* C10: whenever nest.Connect raises, _nest_connect logs at least one error
\* message and raises that same error.
C10_EngineErrorLoggedAndRaised ==
    \A g \in DOMAIN gateway :
        gateway[g].engine # "ok" =>
            /\ gateway[g].n_logged >= 1
            /\ gateway[g].raised = gateway[g].engine

\* the delay and the resolution as the diagnostic is to show them
ShownDelay(syn_spec) ==
    IF ~IsNone(syn_spec) /\ "delay" \in DOMAIN syn_spec THEN ToString(syn_spec.delay)
    ELSE "NaN"

ShownResolution(kernel) ==
    IF "resolution" \in DOMAIN kernel THEN ToString(kernel.resolution) ELSE "NaN"

\* C11: when nest.Connect raises BadDelay, _nest_connect logs a message with
\* the delay of the synapse spec and the kernel's resolution, the sentinel
\* standing for whichever is unavailable, and raises that BadDelay again, also
\* when the resolution is missing, when the spec has no delay and when the
\* spec is omitted.
C11_BadDelayDiagnosed ==
    \A g \in DOMAIN gateway :
        gateway[g].engine = "BadDelay" =>
            /\ gateway[g].raised = "BadDelay"
            /\ \E l \in DOMAIN log :
                   /\ log[l].inv = gateway[g].inv
                   /\ log[l].msg.text = "delay not compatible with resolution"
                   /\ log[l].msg.delay = ShownDelay(gateway[g].syn_spec)
                   /\ log[l].msg.dt = ShownResolution(gateway[g].kernel)

\* the weights the callables are compared on
Weights == 0..2

\* p answers every call as fnc does
Equivalent(p, fnc) == \A weight \in Weights : call_partial(p, weight) = call(fnc, weight)

\* the calls before invocation i that ask to register a function under name
RegistrationsOf(name, i) ==
    {k \in 1..(i - 1) :
        \/ /\ calls[k].op = "add_weight_function"
           /\ calls[k].arg.name = name
        \/ /\ calls[k].op = "set_default_weight_function"
           /\ name = "default_weight_fnc"}

\* the calls before invocation i that register a function named name with the
\* name argument omitted
UnnamedRegistrationsOf(name, i) ==
    {k \in 1..(i - 1) : /\ calls[k].op = "add_weight_function"
                        /\ calls[k].arg.name = "None"
                        /\ calls[k].arg.fnc.name = name}

Latest(ks) == CHOOSE k \in ks : \A other \in ks : other <= k

\* C12: a registration with a name, or of the default, never fails;
\* get_weight_function(name) returns a callable equivalent to the function of
\* the latest registration under name (set_default_weight_function registers
\* under "default_weight_fnc"), and fails with KeyError when there was none.
C12_LastWriteWins ==
    /\ \A k \in DOMAIN calls :
           \/ calls[k].op = "set_default_weight_function"
           \/ calls[k].op = "add_weight_function" /\ calls[k].arg.name # "None"
           => calls[k].err = "none"
    /\ \A j \in DOMAIN fetched :
           LET i == fetched[j].inv
               name == fetched[j].name
               regs == RegistrationsOf(name, i)
           IN UnnamedRegistrationsOf(name, i) = {} =>
                  IF regs = {}
                  THEN ~fetched[j].found /\ calls[i].err = "KeyError"
                  ELSE /\ fetched[j].found
                       /\ calls[i].err = "none"
                       /\ Equivalent(fetched[j].result, calls[Latest(regs)].arg.fnc)

\* a lookup after two registrations of different functions under its name
C12_Witness ==
    \E j \in DOMAIN fetched :
        /\ fetched[j].found
        /\ \E k1, k2 \in RegistrationsOf(fetched[j].name, fetched[j].inv) :
               k1 < k2 /\ calls[k1].arg.fnc # calls[k2].arg.fnc

\* C16: add_weight_function(fnc) with the name omitted completes and registers
\* fnc under fnc's own name: the registry then holds a callable equivalent to
\* fnc under that name, and every later get_weight_function of that name
\* returns it.
C16_RegistersUnderOwnName ==
    \A k \in CallsOf("add_weight_function") :
        calls[k].arg.name = "None" =>
            LET fnc == calls[k].arg.fnc IN
            /\ calls[k].err = "none"
            /\ fnc.name \in DOMAIN __weight_functions
            /\ Equivalent(__weight_functions[fnc.name], fnc)
            /\ \A j \in DOMAIN fetched :
                   fetched[j].inv > k /\ fetched[j].name = fnc.name =>
                       fetched[j].found /\ Equivalent(fetched[j].result, fnc)

\* the gateway calls the two build methods made that the engine refused
FailedSends ==
    {g \in DOMAIN gateway : /\ gateway[g].caller \in {"build_recurrent_edges", "add_spike_trains"}
                            /\ gateway[g].raised # "none"}

\* C13: when the gateway fails on an edge record of build_recurrent_edges()
\* or of the connection step of add_spike_trains(), the method ends with that
\* error, every earlier connection of the call was made and stays, no later
\* edge record is sent, and until the next call the two pools and the
\* already-built set are as they were when the gateway was called.
C13_FailFastNoRollback ==
    \A g \in FailedSends :
        LET i == gateway[g].inv IN
        /\ calls[i].err = gateway[g].raised
        /\ \A h \in DOMAIN gateway :
               gateway[h].inv = i /\ h # g => h < g /\ gateway[h].raised = "none"
        /\ i = Len(calls) =>
               /\ _gid_map = gateway[g].gid_map
               /\ _virtual_gids = gateway[g].virtual_gids
               /\ _virtual_ids_map = gateway[g].virtual_ids_map

\* add_spike_trains() built a population, sent one edge record and failed on
\* the second, with the failed call the latest
C13_Witness ==
    \E g \in FailedSends :
        /\ gateway[g].caller = "add_spike_trains"
        /\ gateway[g].inv = Len(calls)
        /\ gateway[g].virtual_ids_map # <<>>
        /\ \E h \in DOMAIN gateway : gateway[h].inv = gateway[g].inv /\ h < g

\* the recurrent edge records, each as <<collection, record>>
RecurrentRecords ==
    UNION { {<<i, j>> : j \in DOMAIN _edge_populations[i].edges} :
            i \in {k \in DOMAIN _edge_populations :
                      ~_edge_populations[k].virtual_connections} }

\* some source or target node-id of the record is not in the real pool
Unregistered(ref) ==
    LET edge_pop == _edge_populations[ref[1]]
        edge == edge_pop.edges[ref[2]]
    IN \/ Range(edge.source_node_ids) \ Registered(_gid_map, edge_pop.source_nodes) # {}
       \/ Range(edge.target_node_ids) \ Registered(_gid_map, edge_pop.target_nodes) # {}

\* C14: build_recurrent_edges() leaves the real pool as it found it, so after
\* a call the pool is the one the call resolved in.  No connection request
\* was made by that call for an edge record with a source or target node-id
\* missing from the pool, and unless the engine refused an earlier record the
\* call ended with a lookup error.
C14_UnregisteredNotConnected ==
    (calls # <<>> /\ calls[Len(calls)].op = "build_recurrent_edges") =>
        LET i == Len(calls) IN
        \A ref \in RecurrentRecords :
            Unregistered(ref) =>
                /\ ~\E g \in DOMAIN gateway :
                       /\ gateway[g].inv = i
                       /\ gateway[g].ep = _edge_populations[ref[1]].name
                       /\ gateway[g].e = ref[2]
                /\ (\A g \in FailedSends : gateway[g].inv # i) => calls[i].err = "LookupError"

\* after build_nodes(), a call connected the records before the one that
\* names a virtual node of the mixed population and failed on that one
C14_Witness ==
    /\ calls # <<>>
    /\ calls[Len(calls)].op = "build_recurrent_edges"
    /\ calls[Len(calls)].err = "LookupError"
    /\ \E g \in DOMAIN gateway : gateway[g].inv = Len(calls) /\ gateway[g].ep = "MI"
    /\ \E ref \in RecurrentRecords :
           Unregistered(ref) /\ _edge_populations[ref[1]].name = "MI"

\* the lookups that went to the file and could not load it
FailedLoads ==
    {i \in CallsOf("__get_params") : /\ calls[i].arg.file # "None"
                                     /\ calls[i].arg.file \notin DOMAIN calls[i].arg.cache
                                     /\ calls[i].arg.load # "ok"}

\* the cache as call i left it
CacheAfter(i) == IF i < Len(calls) THEN calls[i + 1].arg.cache ELSE _params_cache

\* the record __get_params call i left
LookupOf(i) == lookups[CHOOSE l \in DOMAIN lookups : lookups[l].inv = i]

\* C15: a lookup whose load fails ends with the load's error and leaves the
\* cache as it found it; every later lookup of the same file, until one
\* succeeds, goes to the file again: it parses the file when the load works
\* and ends with the load's error when it does not.
C15_FailedLoadNotCached ==
    \A i \in FailedLoads :
        /\ calls[i].err = calls[i].arg.load
        /\ CacheAfter(i) = calls[i].arg.cache
        /\ \A j \in CallsOf("__get_params") :
               ( /\ i < j
                 /\ calls[j].arg.file = calls[i].arg.file
                 /\ \A m \in (i + 1)..(j - 1) :
                        calls[m].arg.file = calls[i].arg.file => calls[m].err # "none" )
               => IF calls[j].arg.load = "ok"
                  THEN calls[j].err = "none" /\ LookupOf(j).parsed
                  ELSE calls[j].err = calls[j].arg.load

\* a load that failed, then a lookup of the same file that parsed it
C15_Witness ==
    \E i \in FailedLoads : \E j \in CallsOf("__get_params") :
        /\ i < j
        /\ calls[j].arg.file = calls[i].arg.file
        /\ LookupOf(j).parsed

\* on one pool instance, every add_nestids for a population comes after a
\* create_pool for it
CreatedBeforeAdded(pool) ==
    \A k \in DOMAIN pool.ops :
        pool.ops[k].op = "add_nestids" =>
            \E j \in 1..(k - 1) : /\ pool.ops[j].op = "create_pool"
                                  /\ pool.ops[j].name = pool.ops[k].name

\* C17: on the real pool and on the virtual pool, the create_pool call for a
\* population precedes the first add_nestids call for it.
C17_PoolCreatedFirst ==
    /\ CreatedBeforeAdded(_gid_map)
    /\ CreatedBeforeAdded(_virtual_gids)

\* the calls of set_spikes that returned for node node_id of population name
SpikesSet(name, node_id) ==
    {k \in DOMAIN spikes : /\ spikes[k].node_id = node_id
                           /\ spikes[k].outcome = "returned"
                           /\ \A h \in Range(spikes[k].handles) : objs[h].pop = name}

\* C18: whatever add_spike_trains() calls were made, failed ones included, the
\* virtual pool holds no node-id of a population twice, and a population in
\* the already-built set has each of its virtual nodes registered in the
\* virtual pool with a generator and with its spike train set.
C18_RegisteredOnceBuiltWhole ==
    \A name \in PopNames :
        /\ \A node_id \in NodeIdsOf(name, TRUE) :
               Count(_virtual_gids.node_ids[name], node_id) <= 1
        /\ name \in DOMAIN _virtual_ids_map =>
               \A node_id \in NodeIdsOf(name, TRUE) :
                   /\ node_id \in Registered(_virtual_gids, name)
                   /\ GeneratorsOf(name, node_id) # {}
                   /\ SpikesSet(name, node_id) # {}

====
